---- MODULE Spec2Model ----
(***************************************************************************)
(* A model of python_parser: the namespace build (projectnamespace.py),    *)
(* the analysis passes and the driver (parser.py, main.py) over the token  *)
(* model of tokens.py.                                                     *)
(*                                                                         *)
(* Qualified names are sequences of their dot-separated segments; a file   *)
(* name is the sequence of its dot-separated parts (<<"b","py">>); a path  *)
(* is the sequence of its directory names.  Python objects are referred to *)
(* by their gid (tokens) or by an index into ns.lists (list objects), so   *)
(* that aliasing is kept.                                                  *)
(***************************************************************************)
EXTENDS Integers, Sequences, FiniteSets, TLC

VARIABLES project,   \* the directory tree under analysis (the input, never written)
          pc,        \* position of the driver / parser.run
          queue,     \* directories os.walk has still to yield to _build_namespace
          ns,        \* the ProjectNameSpace object
          parser,    \* the AllParser and the ImportParser object of parser.run
          todo,      \* relations condense_relations has still to iterate over
          fine,      \* history: the set condense_relations iterates over
          out,       \* result documents opened / written by the driver
          traversals \* history: walk_dir_tree calls completed per fixed-point parser

vars == <<project, pc, queue, ns, parser, todo, fine, out, traversals>>

(***************************************************************************)
(* Bounds of the model.                                                    *)
(***************************************************************************)
MaxTraversals == 6      \* walk_dir_tree calls one fixed-point parser may make
MaxDepth == 2           \* nesting depth of the generated directory trees

(***************************************************************************)
(* Generic helpers.                                                        *)
(***************************************************************************)
FoldSeq(Op(_, _), base, s) ==
    LET F[i \in 0..Len(s)] == IF i = 0 THEN base ELSE Op(F[i - 1], s[i])
    IN  F[Len(s)]

Last(s) == s[Len(s)]
Front(s) == SubSeq(s, 1, Len(s) - 1)
Has(d, k) == k \in DOMAIN d
Put(d, k, v) == (k :> v) @@ d
Pop(d, k) == [x \in DOMAIN d \ {k} |-> d[x]]
InSeq(x, s) == \E i \in 1..Len(s) : s[i] = x
\* a local variable: Body of the value v, v being computed once
Bind(v, Body(_)) == Body(v)

(***************************************************************************)
(* Syntax trees of source files (what ast.parse / symtable deliver).       *)
(***************************************************************************)
Name(id) == [e |-> "Name", id |-> id]
Attribute(value, attr) == [e |-> "Attribute", value |-> value, attr |-> attr]
Call(func) == [e |-> "Call", func |-> func]
ListLit(elts) == [e |-> "List", elts |-> elts]
Constant(typ) == [e |-> "Constant", typ |-> typ]
BinOp(left, op, right) == [e |-> "BinOp", left |-> left, op |-> op, right |-> right]

ClassDef(name, bases, body) ==
    [kind |-> "ClassDef", name |-> name, bases |-> bases, keywords |-> <<>>,
     body |-> body]
FunctionDef(name, params, body) ==
    [kind |-> "FunctionDef", name |-> name, params |-> params, body |-> body]
ImportStmt(names) == [kind |-> "Import", names |-> names]
ImportFrom(module, names, level) ==
    [kind |-> "ImportFrom", module |-> module, names |-> names, level |-> level]
Assign(target, value) == [kind |-> "Assign", target |-> target, value |-> value]
AugAssign(target, op, value) ==
    [kind |-> "AugAssign", target |-> target, op |-> op, value |-> value]
ExprStmt(value) == [kind |-> "Expr", value |-> value]
alias(name, asname) == [name |-> name, asname |-> asname]

InitPy == <<"__init__", "py">>
File(name, body) == [name |-> name, ok |-> TRUE, body |-> body]
BadFile(name) == [name |-> name, ok |-> FALSE, body |-> <<>>]
Dir(name, files, dirs) == [name |-> name, files |-> files, dirs |-> dirs]

(***************************************************************************)
(* utils.qual_name_from_path: '/' becomes '.', and of a file name only the *)
(* part before its first dot is kept.  file = <<>> is "no file".           *)
(***************************************************************************)
qual_name_from_path(path, file) ==
    IF file # <<>> THEN path \o <<Head(file)>> ELSE path

(***************************************************************************)
(* os.walk: one (current_dir, sub_dirs, files) triple per directory,       *)
(* parents first (topdown) or children first.                              *)
(***************************************************************************)
RECURSIVE walk(_, _, _)
walk(dir, parent, topdown) ==
    LET path == parent \o <<dir.name>>
        here == <<[current_dir |-> path,
                   sub_dirs |-> [i \in 1..Len(dir.dirs) |-> dir.dirs[i].name],
                   files |-> dir.files]>>
        below == FoldSeq(LAMBDA acc, sub : acc \o walk(sub, path, topdown),
                         <<>>, dir.dirs)
    IN  IF topdown THEN here \o below ELSE below \o here

(***************************************************************************)
(* tokens.py: the entities.  One record shape for all kinds; the fields a  *)
(* kind does not have in the source are never read for it (reading one is  *)
(* an AttributeError, modelled where it can happen).                       *)
(***************************************************************************)
Token(kind, gid, qual_name) ==
    [kind |-> kind, gid |-> gid, qual_name |-> qual_name,
     regular_pkg |-> FALSE, all |-> 0, all_aliases |-> <<>>,
     declared_names |-> <<>>, imported_names |-> <<>>,
     packages |-> {}, components |-> {}, classes |-> {}, functions |-> {},
     inst_attrs |-> {}, inst_methods |-> {}, relations |-> {}, params |-> <<>>]

TokenName(t) == Last(t.qual_name)

\* set.add of a token: Token.__eq__/__hash__ go by qual_name, so a token
\* whose qualified name the set already holds is not added.
TokenSetAdd(n, set, g) ==
    IF \E h \in set : n.rel_tokens[h].qual_name = n.rel_tokens[g].qual_name
    THEN set ELSE set \cup {g}

\* Relation.__eq__/__hash__ go by (src_id, tgt_id, weight).
Relation(src_id, tgt_id, type, stereotype) ==
    [src_id |-> src_id, tgt_id |-> tgt_id, weight |-> 0, type |-> type,
     stereotype |-> stereotype]
RelEq(r, s) == r.src_id = s.src_id /\ r.tgt_id = s.tgt_id /\ r.weight = s.weight
\* set.add that puts the new element in the place of an equal one
RelSetReplace(set, r) == {s \in set : ~RelEq(r, s)} \cup {r}
RelSetAdd(set, r) == IF \E s \in set : RelEq(r, s) THEN set ELSE set \cup {r}
\* a | b keeps a's element of two equal ones
RelSetUnion(a, b) == a \cup {r \in b : ~\E s \in a : RelEq(r, s)}

(***************************************************************************)
(* ProjectNameSpace.__init__                                               *)
(***************************************************************************)
NewNameSpace ==
    [gid |-> 0, root_comp |-> -1, rel_tokens |-> <<>>, tokens |-> <<>>,
     dependencies |-> {}, associations |-> {}, lists |-> <<>>,
     raised |-> "none"]

Raise(n, exc) == IF n.raised = "none" THEN [n EXCEPT !.raised = exc] ELSE n
Ok(n) == n.raised = "none"

make_package(n, directory) ==
    LET qual_name == qual_name_from_path(directory, <<>>)
        pkg == Token("Package", n.gid, qual_name)
    IN  [n EXCEPT !.tokens = Put(@, qual_name, n.gid),
                  !.rel_tokens = Put(@, n.gid, pkg),
                  !.gid = @ + 1]

make_component(n, directory, file) ==
    LET qual_name == qual_name_from_path(directory, file)
        comp == [Token("Component", n.gid, qual_name)
                    EXCEPT !.regular_pkg = (file = <<>>)]
    IN  [n EXCEPT !.tokens = Put(@, qual_name, n.gid),
                  !.rel_tokens = Put(@, n.gid, comp),
                  !.gid = @ + 1]

\* one method table of a class table
parse_method(n, cls, meth_table) ==
    IF meth_table.kind # "FunctionDef" THEN n
    ELSE LET meth_qual_name == n.rel_tokens[cls].qual_name \o <<meth_table.name>>
             meth == [Token("Function", n.gid, meth_qual_name)
                         EXCEPT !.params = meth_table.params]
             n1 == [n EXCEPT !.rel_tokens = Put(@, n.gid, meth)]
         IN  [n1 EXCEPT
                !.rel_tokens[cls].declared_names =
                      Put(@, <<meth_table.name>>, meth_qual_name),
                !.rel_tokens[cls].inst_methods = TokenSetAdd(n1, @, n.gid),
                !.tokens = Put(@, meth_qual_name, n.gid),
                !.gid = @ + 1]

\* one child table of the module's symbol table
parse_child(n, component, child) ==
    LET qual_name == n.rel_tokens[component].qual_name \o <<child.name>>
    IN  IF child.kind = "ClassDef"
        THEN LET cls == Token("Class", n.gid, qual_name)
                 n1 == [n EXCEPT !.rel_tokens = Put(@, n.gid, cls)]
                 n2 == [n1 EXCEPT
                          !.rel_tokens[component].classes = TokenSetAdd(n1, @, n.gid),
                          !.rel_tokens[component].declared_names =
                                Put(@, <<child.name>>, qual_name),
                          !.tokens = Put(@, qual_name, n.gid),
                          !.gid = @ + 1]
             IN  FoldSeq(LAMBDA acc, m : parse_method(acc, n.gid, m), n2, child.body)
        ELSE IF child.kind = "FunctionDef"
        THEN LET meth == [Token("Function", n.gid, qual_name)
                             EXCEPT !.params = child.params]
                 n1 == [n EXCEPT !.rel_tokens = Put(@, n.gid, meth)]
             IN  [n1 EXCEPT
                    !.rel_tokens[component].functions = TokenSetAdd(n1, @, n.gid),
                    !.rel_tokens[component].declared_names =
                          Put(@, <<child.name>>, qual_name),
                    !.tokens = Put(@, qual_name, n.gid),
                    !.gid = @ + 1]
        ELSE n

\* symtable.symtable raises SyntaxError on a file that does not parse
parse_file_content(n, file, component) ==
    IF ~file.ok THEN Raise(n, "SyntaxError")
    ELSE FoldSeq(LAMBDA acc, child : parse_child(acc, component, child), n, file.body)

IsSourceFile(file) ==
    Len(file.name) >= 2 /\ Last(file.name) = "py" /\ file.name # InitPy

\* build_file without the pruning of a module that declares nothing
build_file_keep(acc, current_dir, current, file) ==
    IF ~Ok(acc.n) \/ ~IsSourceFile(file) THEN acc
    ELSE Bind(parse_file_content(make_component(acc.n, current_dir, file.name),
                                 file, acc.n.gid),
              LAMBDA n1 :
                  IF ~Ok(n1) THEN [acc EXCEPT !.n = n1]
                  ELSE [n |-> [n1 EXCEPT !.rel_tokens[current].components =
                                             TokenSetAdd(n1, @, acc.n.gid)],
                        has_children |-> TRUE])

\* the body of the loop over the files of a directory (lines 50-58);
\* acc = [n, has_children]
build_file(acc, current_dir, current, file) ==
    IF ~Ok(acc.n) \/ ~IsSourceFile(file) THEN acc
    ELSE Bind(parse_file_content(make_component(acc.n, current_dir, file.name),
                                 file, acc.n.gid),
              LAMBDA n1 :
                  LET comp == n1.rel_tokens[acc.n.gid]
                  IN  IF ~Ok(n1) THEN [acc EXCEPT !.n = n1]
                      ELSE IF Cardinality(comp.classes) = 0
                              /\ Cardinality(comp.functions) = 0
                      THEN [acc EXCEPT !.n = [n1 EXCEPT !.tokens =
                                                           Pop(@, comp.qual_name)]]
                      ELSE [n |-> [n1 EXCEPT !.rel_tokens[current].components =
                                                 TokenSetAdd(n1, @, acc.n.gid)],
                            has_children |-> TRUE])

\* the body of the loop over the sub-directories (lines 60-70)
build_sub_dir(acc, current_dir, current, sub_dir) ==
    LET qual_name == qual_name_from_path(current_dir \o <<sub_dir>>, <<>>)
        n == acc.n
    IN  IF ~Ok(n) \/ ~Has(n.tokens, qual_name) THEN acc      \* except KeyError: pass
        ELSE LET child == n.tokens[qual_name]
                 kind == n.rel_tokens[child].kind
             IN  [n |-> IF kind = "Component"
                        THEN [n EXCEPT !.rel_tokens[current].components =
                                           TokenSetAdd(n, @, child)]
                        ELSE IF kind = "Package"
                        THEN [n EXCEPT !.rel_tokens[current].packages =
                                           TokenSetAdd(n, @, child)]
                        ELSE n,
                  has_children |-> TRUE]

HasMarker(files) == \E i \in 1..Len(files) : files[i].name = InitPy
MarkerOf(files) == files[CHOOSE i \in 1..Len(files) : files[i].name = InitPy]

\* one iteration of the os.walk loop of _build_namespace (lines 42-76)
\* the end of an iteration (lines 72-76), a3 = [n, has_children] being the
\* state after the two inner loops
build_dir_end(a3, d, root_dir, current) ==
    LET qn == a3.n.rel_tokens[current].qual_name
    IN  IF ~Ok(a3.n) THEN a3.n
        ELSE IF ~a3.has_children /\ ~Has(a3.n.tokens, qn) THEN Raise(a3.n, "KeyError")
        ELSE Bind(IF a3.has_children THEN a3.n
                  ELSE [a3.n EXCEPT !.tokens = Pop(@, qn)],
                  LAMBDA n4 : IF d.current_dir = root_dir
                              THEN [n4 EXCEPT !.root_comp = current]
                              ELSE n4)

build_dir(n, d, root_dir) ==
    Bind(IF HasMarker(d.files)
         THEN parse_file_content(make_component(n, d.current_dir, <<>>),
                                 MarkerOf(d.files), n.gid)
         ELSE make_package(n, d.current_dir),
         LAMBDA n1 :
             IF ~Ok(n1) THEN n1
             ELSE build_dir_end(
                    FoldSeq(LAMBDA acc, s : build_sub_dir(acc, d.current_dir, n.gid, s),
                            FoldSeq(LAMBDA acc, f :
                                        build_file(acc, d.current_dir, n.gid, f),
                                    [n |-> n1, has_children |-> FALSE], d.files),
                            d.sub_dirs),
                    d, root_dir, n.gid))

(***************************************************************************)
(* Name lookup (projectnamespace.py, tokens.py).  A lookup yields          *)
(* [tok, exc]: the gid found (-1 for None) and the exception raised.       *)
(***************************************************************************)
Found(g) == [tok |-> g, exc |-> "none"]
NotFound == [tok |-> -1, exc |-> "none"]
Failed(exc) == [tok |-> -1, exc |-> exc]

\* NameSpace.get_qualname_of_local_name; <<>> for None
get_qualname_of_local_name(t, name) ==
    IF Has(t.declared_names, name) THEN t.declared_names[name]
    ELSE IF Has(t.imported_names, name) THEN t.imported_names[name]
    ELSE <<>>

\* the loop of _find_in_token_hierarchy from level lvl downwards
RECURSIVE find_from_level(_, _, _, _)
find_from_level(n, qual_name_list, name, lvl) ==
    IF lvl < 0 THEN NotFound
    ELSE LET lvl_qual_name == SubSeq(qual_name_list, 1, lvl)
         IN  IF lvl_qual_name = <<>>
             THEN find_from_level(n, qual_name_list, name, lvl - 1)
             ELSE IF ~Has(n.tokens, lvl_qual_name) THEN Failed("KeyError")
             ELSE LET lvl_token == n.rel_tokens[n.tokens[lvl_qual_name]]
                      qual_name == get_qualname_of_local_name(lvl_token, name)
                  IN  IF lvl_token.kind = "Package" THEN NotFound
                      ELSE IF qual_name # <<>>
                      THEN IF Has(n.tokens, qual_name)
                           THEN Found(n.tokens[qual_name])
                           ELSE Failed("KeyError")
                      ELSE find_from_level(n, qual_name_list, name, lvl - 1)

_find_in_token_hierarchy(n, token, name) ==
    LET qual_name_list == n.rel_tokens[token].qual_name
    IN  find_from_level(n, qual_name_list, name, Len(qual_name_list))

\* name is the dotted name split at its dots
get_token_of_local_name(n, token, name) ==
    IF Len(name) > 1
    THEN IF Len(name) = 2
         THEN Bind(_find_in_token_hierarchy(n, token, <<name[1]>>),
                   LAMBDA comp : IF comp.tok # -1
                                 THEN _find_in_token_hierarchy(n, comp.tok, <<name[2]>>)
                                 ELSE comp)
         ELSE NotFound
    ELSE _find_in_token_hierarchy(n, token, name)

\* ProjectNameSpace.get_parent
get_parent(n, token) ==
    LET qn == n.rel_tokens[token].qual_name
    IN  IF Len(qn) <= 1 THEN NotFound
        ELSE IF Has(n.tokens, Front(qn)) THEN Found(n.tokens[Front(qn)])
        ELSE Failed("KeyError")

(***************************************************************************)
(* Parser: the token stack.  A visitor works on a = [n, u, stack]: the     *)
(* namespace, the parser's unresolved_nodes and its token_stack.           *)
(***************************************************************************)
current_comp(a) == a.stack[1]
current_cls(a) == IF Len(a.stack) >= 2 THEN a.stack[2] ELSE -1
current_token(a) == Last(a.stack)
RaiseIn(a, exc) == [a EXCEPT !.n = Raise(@, exc)]
Unresolved(a) == [a EXCEPT !.u = @ + 1]

\* '.'.join(parts) + '.' + rest, where the join of no parts is ''
DotJoin(parts, rest) == IF parts = <<>> THEN <<"">> \o rest ELSE parts \o rest

\* IndeterministicParser._build_qualified_from_name; node.module = <<>> is None
_build_qualified_from_name(a, node) ==
    LET comp == a.n.rel_tokens[current_comp(a)]
        qual_name == comp.qual_name
        cut == SubSeq(qual_name, 1, Len(qual_name) - node.level)
    IN  IF node.module = <<>> THEN cut
        ELSE IF node.level = 0 THEN node.module
        ELSE IF comp.regular_pkg THEN DotJoin(qual_name, node.module)
        ELSE DotJoin(cut, node.module)

(***************************************************************************)
(* AllParser                                                               *)
(***************************************************************************)
\* truth value of a list reference: None and the empty list are false
Truthy(n, ref) == ref # 0 /\ n.lists[ref] # <<>>
NewList(n, elts) == [n EXCEPT !.lists = Append(@, elts)]

HasAll(t) == t.kind = "Component"     \* only Component declares self.all

all_import_alias(a, node, al) ==
    IF ~Ok(a.n) \/ al.name # "__all__" THEN a
    ELSE LET from_mod == _build_qualified_from_name(a, node)
             key == IF al.asname # "" THEN al.asname ELSE al.name
         IN  IF ~Has(a.n.tokens, from_mod) THEN RaiseIn(a, "KeyError")
             ELSE LET from_token == a.n.rel_tokens[a.n.tokens[from_mod]]
                  IN  IF ~HasAll(from_token) THEN RaiseIn(a, "AttributeError")
                      ELSE [a EXCEPT !.n.rel_tokens[current_token(a)].all_aliases =
                                         Put(@, key, from_token.all)]

all_visit_ImportFrom(a, node) ==
    FoldSeq(LAMBDA acc, al : all_import_alias(acc, node, al), a, node.names)

\* self.visit(expr) flattened by _flatten_nested_tuple: the ids of the names
\* concatenated, "None" where a visit returns None
RECURSIVE all_flat_visit(_)
all_flat_visit(expr) ==
    IF expr.e = "Name" THEN <<expr.id>>
    ELSE IF expr.e = "BinOp" /\ expr.op = "Add"
    THEN all_flat_visit(expr.left) \o all_flat_visit(expr.right)
    ELSE <<"None">>

all_assign_alias(a, al) ==
    IF ~Ok(a.n) THEN a
    ELSE LET cur == current_token(a)
             tok == a.n.rel_tokens[cur]
         IN  IF ~Has(tok.all_aliases, al) THEN RaiseIn(a, "KeyError")
             ELSE LET all == tok.all_aliases[al]
                  IN  IF Truthy(a.n, all)
                      THEN IF Truthy(a.n, tok.all)
                           THEN [a EXCEPT !.n.lists[tok.all] = @ \o a.n.lists[all]]
                           ELSE [a EXCEPT !.n.rel_tokens[cur].all = all]
                      ELSE Unresolved(a)

IsAllName(target) == target.e = "Name" /\ target.id = "__all__"

all_visit_Assign(a, node) ==
    IF ~IsAllName(node.target) THEN a
    ELSE IF node.value.e \in {"List", "Tuple"}
    THEN LET n1 == NewList(a.n, node.value.elts)
         IN  [a EXCEPT !.n = [n1 EXCEPT !.rel_tokens[current_token(a)].all =
                                            Len(n1.lists)]]
    ELSE IF node.value.e = "BinOp"
    THEN IF node.value.op # "Add" THEN RaiseIn(a, "TypeError")
         ELSE FoldSeq(LAMBDA acc, al : all_assign_alias(acc, al), a,
                      all_flat_visit(node.value))
    ELSE a

all_visit_AugAssign(a, node) ==
    IF IsAllName(node.target) /\ node.op = "Add" /\ node.value.e \in {"List", "Tuple"}
    THEN LET cur == current_token(a)
             tok == a.n.rel_tokens[cur]
         IN  IF Truthy(a.n, tok.all)
             THEN [a EXCEPT !.n.lists[tok.all] = @ \o node.value.elts]
             ELSE LET n1 == NewList(a.n, node.value.elts)
                  IN  Unresolved([a EXCEPT !.n = [n1 EXCEPT !.rel_tokens[cur].all =
                                                             Len(n1.lists)]])
    ELSE a

(***************************************************************************)
(* ImportParser                                                            *)
(***************************************************************************)
HasNames(t) == t.kind # "Package"     \* Package is no NameSpace

\* str.startswith('_') over the identifiers of the model
PrivateNames == {"_Priv", "_helper", "__init__", "__all__"}
startswith_underscore(name) == name \in PrivateNames

import_alias(a, al) ==
    IF Has(a.n.tokens, al.name)
    THEN LET name == IF al.asname # "" THEN <<al.asname>> ELSE al.name
         IN  [a EXCEPT !.n.rel_tokens[current_token(a)].imported_names =
                           Put(@, name, al.name)]
    ELSE a

import_visit_Import(a, node) ==
    FoldSeq(LAMBDA acc, al : import_alias(acc, al), a, node.names)

\* one name of a resolved export list (lines 249-255)
import_star_name(a, from_token, name) ==
    IF Has(from_token.imported_names, <<name>>)
    THEN [a EXCEPT !.n.rel_tokens[current_token(a)].imported_names =
                       Put(@, <<name>>, from_token.imported_names[<<name>>])]
    ELSE IF Has(from_token.declared_names, <<name>>)
    THEN [a EXCEPT !.n.rel_tokens[current_token(a)].imported_names =
                       Put(@, <<name>>, from_token.declared_names[<<name>>])]
    ELSE Unresolved(a)

\* import_star_public without the test of the leading underscore
import_star_all(a, from_token) ==
    LET toks == {a.n.rel_tokens[g] : g \in from_token.classes \cup from_token.functions}
        old == a.n.rel_tokens[current_token(a)].imported_names
        keys == DOMAIN old \cup {<<TokenName(t)>> : t \in toks}
    IN  [a EXCEPT !.n.rel_tokens[current_token(a)].imported_names =
            [k \in keys |->
                IF \E t \in toks : <<TokenName(t)>> = k
                THEN (CHOOSE t \in toks : <<TokenName(t)>> = k).qual_name
                ELSE old[k]]]

\* the names a wildcard import takes from a component without export list
\* (lines 257-259): the iteration order of the set does not show in the
\* result, every short name being written once
import_star_public(a, from_token) ==
    LET toks == {a.n.rel_tokens[g] : g \in from_token.classes \cup from_token.functions}
        pub == {t \in toks : ~startswith_underscore(TokenName(t))}
        old == a.n.rel_tokens[current_token(a)].imported_names
        keys == DOMAIN old \cup {<<TokenName(t)>> : t \in pub}
    IN  [a EXCEPT !.n.rel_tokens[current_token(a)].imported_names =
            [k \in keys |->
                IF \E t \in pub : <<TokenName(t)>> = k
                THEN (CHOOSE t \in pub : <<TokenName(t)>> = k).qual_name
                ELSE old[k]]]

import_from_alias(a, from_mod, al) ==
    IF ~Ok(a.n) THEN a
    ELSE IF al.name = "*"
    THEN IF ~Has(a.n.tokens, from_mod) THEN a
         ELSE LET from_token == a.n.rel_tokens[a.n.tokens[from_mod]]
              IN  IF ~HasAll(from_token) THEN RaiseIn(a, "AttributeError")
                  ELSE IF from_token.all # 0
                  THEN FoldSeq(LAMBDA acc, name : import_star_name(acc, from_token, name),
                               a, a.n.lists[from_token.all])
                  ELSE import_star_public(a, from_token)
    ELSE LET name == IF al.asname # "" THEN al.asname ELSE al.name
             qual_name == DotJoin(from_mod, <<al.name>>)
             cur == current_token(a)
         IN  IF Has(a.n.tokens, qual_name)
             THEN [a EXCEPT !.n.rel_tokens[cur].imported_names =
                               Put(@, <<name>>, qual_name)]
             ELSE IF Has(a.n.tokens, from_mod)
             THEN LET from_token == a.n.rel_tokens[a.n.tokens[from_mod]]
                      names == from_token.imported_names
                  IN  IF ~HasNames(from_token) THEN RaiseIn(a, "AttributeError")
                      ELSE IF Has(names, <<al.name>>)
                      THEN IF Has(names, <<name>>)
                           THEN [a EXCEPT !.n.rel_tokens[cur].imported_names =
                                             Put(@, <<name>>, names[<<name>>])]
                           ELSE RaiseIn(a, "KeyError")
                      ELSE Unresolved(a)
             ELSE a

import_visit_ImportFrom(a, node) ==
    LET from_mod == _build_qualified_from_name(a, node)
    IN  FoldSeq(LAMBDA acc, al : import_from_alias(acc, from_mod, al), a, node.names)

(***************************************************************************)
(* InstanceAttributeParser                                                 *)
(***************************************************************************)
Var(name, typ) == [name |-> name, type |-> typ]
\* set.add of a Var: Var.__eq__/__hash__ go by name
\* set.add that puts the new Var in the place of one of the same name
VarSetReplace(set, v) == {w \in set : w.name # v.name} \cup {v}
VarSetAdd(set, v) == IF \E w \in set : w.name = v.name THEN set ELSE set \cup {v}

PrimitiveTypes ==
    {"str", "int", "float", "complex", "bool", "bytes", "null", "set", "list",
     "tuple", "dict"}

\* self.visit(expr): the dotted name split at its dots, <<>> for None
RECURSIVE inst_visit(_)
inst_visit(expr) ==
    IF expr.e = "Name" THEN <<expr.id>>
    ELSE IF expr.e = "Call" THEN inst_visit(expr.func)
    ELSE IF expr.e = "Attribute"
    THEN LET name == inst_visit(expr.value)
         IN  IF name # <<>> THEN name \o <<expr.attr>> ELSE <<>>
    ELSE IF expr.e = "Constant" THEN (IF expr.typ # "" THEN <<expr.typ>> ELSE <<>>)
    ELSE IF expr.e \in {"List", "ListComp"} THEN <<"list">>
    ELSE IF expr.e = "Tuple" THEN <<"tuple">>
    ELSE IF expr.e \in {"Set", "SetComp"} THEN <<"set">>
    ELSE IF expr.e \in {"Dict", "DictComp"} THEN <<"dict">>
    ELSE <<>>

\* self.current_cls.inst_attrs.add(attr): current_cls is None outside a
\* class or function, and only a Class has inst_attrs
add_inst_attr(a, attr) ==
    LET cls == current_cls(a)
    IN  IF cls = -1 \/ a.n.rel_tokens[cls].kind # "Class"
        THEN RaiseIn(a, "AttributeError")
        ELSE [a EXCEPT !.n.rel_tokens[cls].inst_attrs = VarSetAdd(@, attr)]

inst_visit_Assign(a, node) ==
    LET trgt == node.target
    IN  IF ~(trgt.e = "Attribute" /\ trgt.value.e = "Name" /\ trgt.value.id = "self")
        THEN a
        ELSE Bind(inst_visit(node.value), LAMBDA typ :
                 IF typ # <<>>
                 THEN Bind(get_token_of_local_name(a.n, current_token(a), typ),
                           LAMBDA r :
                      IF r.exc # "none" THEN RaiseIn(a, r.exc)
                      ELSE IF r.tok # -1
                      THEN IF current_cls(a) = -1 THEN RaiseIn(a, "AttributeError")
                           ELSE add_inst_attr(
                                  [a EXCEPT !.n.associations =
                                       RelSetAdd(@, Relation(r.tok, current_cls(a),
                                                             "aggregation", "none"))],
                                  Var(trgt.attr, TokenName(a.n.rel_tokens[r.tok])))
                      ELSE IF Len(typ) = 1 /\ typ[1] \in PrimitiveTypes
                      THEN add_inst_attr(a, Var(trgt.attr, typ[1]))
                      ELSE a)
                 ELSE add_inst_attr(a, Var(trgt.attr, "")))

(***************************************************************************)
(* InheritanceParser                                                       *)
(***************************************************************************)
\* self.visit(expr) of a base expression
RECURSIVE inh_visit(_)
inh_visit(expr) ==
    IF expr.e = "Name" THEN <<expr.id>>
    ELSE IF expr.e = "Attribute"
    THEN LET name == inh_visit(expr.value)
         IN  IF name # <<>> THEN name \o <<expr.attr>> ELSE <<>>
    ELSE <<>>

_is_abstract_class(node) ==
    \/ \E i \in 1..Len(node.bases) :
          node.bases[i].e = "Name" /\ node.bases[i].id = "ABC"
    \/ \E i \in 1..Len(node.keywords) :
          /\ node.keywords[i].arg = "metaclass"
          /\ node.keywords[i].value.e = "Name"
          /\ node.keywords[i].value.id = "ABCMeta"

_make_inheritence(a, node, source_token, base_token) ==
    LET dep == Relation(source_token, base_token, "refines",
                        IF _is_abstract_class(node) THEN "realizes" ELSE "derives")
    IN  [a EXCEPT !.n.dependencies = RelSetAdd(@, dep)]

inh_base(a, node, child, base) ==
    IF ~Ok(a.n) THEN a
    ELSE IF base.e = "Name"
    THEN Bind(get_qualname_of_local_name(a.n.rel_tokens[current_comp(a)],
                                         inh_visit(base)),
              LAMBDA child_qualname :
                  IF child_qualname = <<>> THEN a
                  ELSE IF ~Has(a.n.tokens, child_qualname) THEN RaiseIn(a, "KeyError")
                  ELSE _make_inheritence(a, node, child, a.n.tokens[child_qualname]))
    ELSE IF base.e = "Attribute"
    THEN Bind(inh_visit(base), LAMBDA qual_name :
            IF qual_name = <<>> THEN a
            ELSE Bind(get_token_of_local_name(a.n, child, qual_name), LAMBDA parent :
                    IF parent.exc # "none" THEN RaiseIn(a, parent.exc)
                    ELSE IF parent.tok # -1
                    THEN _make_inheritence(a, node, child, parent.tok)
                    ELSE a))
    ELSE a

inh_visit_ClassDef(a, node) ==
    LET qual_name == a.n.rel_tokens[current_comp(a)].qual_name \o <<node.name>>
    IN  IF Has(a.n.tokens, qual_name)
        THEN FoldSeq(LAMBDA acc, base : inh_base(acc, node, a.n.tokens[qual_name], base),
                     a, node.bases)
        ELSE a

(***************************************************************************)
(* CallParser                                                              *)
(***************************************************************************)
\* Dependency(current_token, target) of a resolved call (lines 444-453)
call_resolved(a, typ) ==
    Bind(get_token_of_local_name(a.n, current_token(a), typ), LAMBDA r :
        LET t == a.n.rel_tokens[r.tok]
            has_init == t.kind = "Class" /\ Has(t.declared_names, <<"__init__">>)
            trgt == IF has_init THEN a.n.tokens[t.qual_name \o <<"__init__">>]
                    ELSE r.tok
            stereotype == IF t.kind = "Class" /\ ~has_init THEN "instantiates"
                          ELSE "calls"
        IN  IF r.exc # "none" THEN RaiseIn(a, r.exc)
            ELSE IF r.tok = -1 THEN a
            ELSE IF has_init /\ ~Has(a.n.tokens, t.qual_name \o <<"__init__">>)
            THEN RaiseIn(a, "KeyError")
            ELSE [a EXCEPT !.n.dependencies =
                     RelSetAdd(@, Relation(current_token(a), trgt, "uses",
                                           stereotype))])

\* self.visit(expr): [a, v], the state after the visit and the value
\* returned (the dotted name split at its dots, <<>> for None)
RECURSIVE call_visit(_, _)
call_visit(a, expr) ==
    IF ~Ok(a.n) THEN [a |-> a, v |-> <<>>]
    ELSE IF expr.e = "Name" THEN [a |-> a, v |-> <<expr.id>>]
    ELSE IF expr.e = "Attribute"
    THEN LET r == call_visit(a, expr.value)
         IN  [a |-> r.a, v |-> IF r.v # <<>> THEN r.v \o <<expr.attr>> ELSE <<>>]
    ELSE IF expr.e = "Call"
    THEN LET r == call_visit(a, expr.func)
         IN  [a |-> IF r.v # <<>> /\ Ok(r.a.n) THEN call_resolved(r.a, r.v) ELSE r.a,
              v |-> <<>>]
    ELSE IF expr.e = "BinOp"
    THEN [a |-> call_visit(call_visit(a, expr.left).a, expr.right).a, v |-> <<>>]
    ELSE [a |-> a, v |-> <<>>]

(***************************************************************************)
(* Parser.visit over statements, Parser.descend and Parser.walk_dir_tree.  *)
(* P names the parser class: "All", "Import", "InstAttr", "Inherit",       *)
(* "Call".                                                                 *)
(***************************************************************************)
Descends(P) == P \in {"Import", "InstAttr", "Call"}

RECURSIVE visit_body(_, _, _)
RECURSIVE visit_stmt(_, _, _)

\* descend that pops the entity from the lookup table instead of the stack
descend_pop(P, a, node) ==
    LET qual_name == a.n.rel_tokens[current_token(a)].qual_name \o <<node.name>>
    IN  IF Has(a.n.tokens, qual_name)
        THEN LET b == visit_body(P, [a EXCEPT !.stack = Append(@, a.n.tokens[qual_name])],
                                 node.body)
             IN  [b EXCEPT !.stack = a.stack, !.n.tokens = Pop(@, qual_name)]
        ELSE a

\* Parser.descend
descend(P, a, node) ==
    LET qual_name == a.n.rel_tokens[current_token(a)].qual_name \o <<node.name>>
    IN  IF Has(a.n.tokens, qual_name)
        THEN LET b == visit_body(P, [a EXCEPT !.stack = Append(@, a.n.tokens[qual_name])],
                                 node.body)
             IN  [b EXCEPT !.stack = a.stack]
        ELSE a

visit_stmt(P, a, node) ==
    IF ~Ok(a.n) THEN a
    ELSE IF node.kind \in {"ClassDef", "FunctionDef"}
    THEN IF Descends(P) THEN descend(P, a, node)
         ELSE IF P = "Inherit" /\ node.kind = "ClassDef" THEN inh_visit_ClassDef(a, node)
         ELSE visit_body(P, a, node.body)                 \* generic_visit
    ELSE IF node.kind = "Import"
    THEN IF P = "Import" THEN import_visit_Import(a, node) ELSE a
    ELSE IF node.kind = "ImportFrom"
    THEN IF P = "All" THEN all_visit_ImportFrom(a, node)
         ELSE IF P = "Import" THEN import_visit_ImportFrom(a, node)
         ELSE a
    ELSE IF node.kind = "Assign"
    THEN IF P = "All" THEN all_visit_Assign(a, node)
         ELSE IF P = "InstAttr" THEN inst_visit_Assign(a, node)
         ELSE IF P = "Call"
         THEN call_visit(call_visit(a, node.target).a, node.value).a
         ELSE a
    ELSE IF node.kind = "AugAssign"
    THEN IF P = "All" THEN all_visit_AugAssign(a, node)
         ELSE IF P = "Call"
         THEN call_visit(call_visit(a, node.target).a, node.value).a
         ELSE a
    ELSE IF node.kind = "Expr"
    THEN IF P = "Call" THEN call_visit(a, node.value).a ELSE a
    ELSE a

visit_body(P, a, body) ==
    FoldSeq(LAMBDA acc, node : visit_stmt(P, acc, node), a, body)

\* one file of walk_dir_tree (lines 58-67)
walk_file(P, a, current_dir, file) ==
    LET qual_name == IF file.name = InitPy
                     THEN qual_name_from_path(current_dir, <<>>)
                     ELSE qual_name_from_path(current_dir, file.name)
    IN  IF ~Ok(a.n) \/ ~Has(a.n.tokens, qual_name) THEN a
        ELSE IF ~file.ok THEN RaiseIn(a, "SyntaxError")
        ELSE [visit_body(P, [a EXCEPT !.stack = <<a.n.tokens[qual_name]>>], file.body)
                 EXCEPT !.stack = <<>>]

walk_dir_tree(P, n, u, root, topdown) ==
    FoldSeq(LAMBDA acc, d :
                FoldSeq(LAMBDA acc2, f : walk_file(P, acc2, d.current_dir, f),
                        acc, d.files),
            [n |-> n, u |-> u, stack |-> <<>>],
            walk(root, <<>>, topdown))

(***************************************************************************)
(* ProjectNameSpace.condense_relations / _bubble_relation                  *)
(***************************************************************************)
HasRelations(t) == t.kind # "Function"

\* _bubble_relation that records the edge on the source's parent without
\* ascending to a shared parent
_bubble_relation_flat(n, src, trgt) ==
    LET src_parent == get_parent(n, src)
        trgt_parent == get_parent(n, trgt)
        dep == Relation(src, trgt, "uses", "none")
    IN  IF src_parent.exc # "none" THEN Raise(n, src_parent.exc)
        ELSE IF trgt_parent.exc # "none" THEN Raise(n, trgt_parent.exc)
        ELSE IF src_parent.tok # -1 /\ trgt_parent.tok # -1
                /\ HasRelations(n.rel_tokens[src_parent.tok])
        THEN [n EXCEPT !.dependencies = RelSetAdd(@, dep),
                       !.rel_tokens[src_parent.tok].relations = RelSetAdd(@, dep)]
        ELSE n

RECURSIVE _bubble_relation(_, _, _)
_bubble_relation(n, src, trgt) ==
    LET src_parent == get_parent(n, src)
        trgt_parent == get_parent(n, trgt)
        dep == Relation(src, trgt, "uses", "none")
        owner == n.tokens[n.rel_tokens[src_parent.tok].qual_name]
    IN  IF src_parent.exc # "none" THEN Raise(n, src_parent.exc)
        ELSE IF trgt_parent.exc # "none" THEN Raise(n, trgt_parent.exc)
        ELSE IF src_parent.tok # -1 /\ trgt_parent.tok # -1
        THEN IF n.rel_tokens[src_parent.tok].qual_name
                    = n.rel_tokens[trgt_parent.tok].qual_name
             THEN LET n1 == [n EXCEPT !.dependencies = RelSetAdd(@, dep)]
                  IN  IF HasRelations(n.rel_tokens[owner])
                      THEN [n1 EXCEPT !.rel_tokens[owner].relations = RelSetAdd(@, dep)]
                      ELSE Raise(n1, "AttributeError")
             ELSE _bubble_relation(n, src_parent.tok, trgt_parent.tok)
        ELSE n

(***************************************************************************)
(* The analysed projects.                                                  *)
(***************************************************************************)
Py(stem) == <<stem, "py">>
DirName(k) == <<"a", "p", "q", "r", "s", "t">>[k]

\* Directory trees: per directory a marker file (absent, declaring nothing,
\* declaring a class), a module (absent, declaring nothing, declaring a
\* function) and at most one sub-directory.
MarkerChoices ==
    {<<>>, <<File(InitPy, <<>>)>>, <<File(InitPy, <<ClassDef("K", <<>>, <<>>)>>)>>}
ModuleChoices ==
    {<<>>, <<File(Py("m"), <<>>)>>,
     <<File(Py("m"), <<FunctionDef("f", <<>>, <<>>)>>)>>}

RECURSIVE Trees(_)
Trees(k) ==
    {Dir(DirName(k), mk \o md, subs) :
        mk \in MarkerChoices, md \in ModuleChoices,
        subs \in IF k >= MaxDepth THEN {<<>>}
                 ELSE {<<>>} \cup {<<t>> : t \in Trees(k + 1)}}

\* a file that does not parse
BrokenProjects ==
    {Dir("a", <<File(Py("m"), <<FunctionDef("f", <<>>, <<>>)>>), BadFile(Py("x"))>>, <<>>)}

\* Calls, instantiation, inheritance and instance attributes between two
\* modules a.b and a.c:
\*     a/b.py   class Foo: [def __init__(self): pass]
\*              def g(): [g()]
\*              [def h(): g()]
\*     a/c.py   from a.b import Foo, g
\*              def make(): Foo(); [g()]
\*              [class Bar(Foo):
\*                   def __init__(self): self.x = Foo(); self.n = 1; self.p = p]
Opt(b, s) == IF b THEN s ELSE <<>>
CallStmt(id) == ExprStmt(Call(Name(id)))
SelfAttr(attr) == Attribute(Name("self"), attr)

SrcB(fooInit, gRec, hCallsG) ==
    <<ClassDef("Foo", <<>>,
               Opt(fooInit, <<FunctionDef("__init__", <<"self">>, <<>>)>>)),
      FunctionDef("g", <<>>, Opt(gRec, <<CallStmt("g")>>))>>
    \o Opt(hCallsG, <<FunctionDef("h", <<>>, <<CallStmt("g")>>)>>)

SrcCFrom(b, makeCallsG, bar) ==
    <<ImportFrom(b, <<alias("Foo", ""), alias("g", "")>>, 0),
      FunctionDef("make", <<>>, <<CallStmt("Foo")>> \o Opt(makeCallsG, <<CallStmt("g")>>))>>
    \o Opt(bar, <<ClassDef("Bar", <<Name("Foo")>>,
                    <<FunctionDef("__init__", <<"self", "p">>,
                        <<Assign(SelfAttr("x"), Call(Name("Foo"))),
                          Assign(SelfAttr("n"), Constant("int")),
                          Assign(SelfAttr("p"), Name("p"))>>)>>)>>)

SrcC(makeCallsG, bar) == SrcCFrom(<<"a", "b">>, makeCallsG, bar)

CallProjects ==
    {Dir("a", <<File(Py("b"), SrcB(fooInit, gRec, hCallsG)),
                File(Py("c"), SrcC(makeCallsG, bar))>>, <<>>) :
        fooInit \in BOOLEAN, gRec \in BOOLEAN, hCallsG \in BOOLEAN,
        makeCallsG \in BOOLEAN, bar \in BOOLEAN}

\* The same two modules in the directories of two sibling packages
\* (a/q/c.py, a/p/b.py), at different depths (a/q/c.py, a/b.py) and in one
\* sub-package (a/p/c.py, a/p/b.py), the packages with or without marker file.
NestedCallProjects ==
    LET b(fooInit) == File(Py("b"), SrcB(fooInit, FALSE, FALSE))
        c(from) == File(Py("c"), SrcCFrom(from, TRUE, FALSE))
        mark(regular) == Opt(regular, <<File(InitPy, <<>>)>>)
    IN  UNION {
          {Dir("a", <<>>, <<Dir("q", mark(regular) \o <<c(<<"a", "p", "b">>)>>, <<>>),
                            Dir("p", mark(regular) \o <<b(fooInit)>>, <<>>)>>),
           Dir("a", <<b(fooInit)>>,
               <<Dir("q", mark(regular) \o <<c(<<"a", "b">>)>>, <<>>)>>),
           Dir("a", <<>>,
               <<Dir("p", mark(regular) \o <<c(<<"a", "p", "b">>), b(fooInit)>>,
                     <<>>)>>)} :
          fooInit \in BOOLEAN, regular \in BOOLEAN}

\* Export lists and imports between two modules a.m and a.other, each
\* declaring one function and carrying one of these statement lists.
AllName == Name("__all__")
FromAll(mod, asname) == ImportFrom(<<"a", mod>>, <<alias("__all__", asname)>>, 0)
Concat(l, r) == BinOp(l, "Add", r)

ExportChoices(peer) ==
    {<<>>,
     <<Assign(AllName, ListLit(<<"Y">>))>>,
     <<AugAssign(AllName, "Add", ListLit(<<"Y">>))>>,
     <<Assign(AllName, ListLit(<<"X">>)), AugAssign(AllName, "Add", ListLit(<<"Z">>))>>,
     <<FromAll(peer, "peer_all"),
       Assign(AllName, Concat(ListLit(<<"X">>), Name("peer_all")))>>,
     <<FromAll(peer, "peer_all"),
       Assign(AllName, Concat(Name("peer_all"), Name("peer_all")))>>,
     <<FromAll(peer, ""), AugAssign(AllName, "Add", ListLit(<<"X">>))>>,
     <<ImportFrom(<<"a", peer>>, <<alias("*", "")>>, 0)>>,
     <<ImportFrom(<<"a", peer>>, <<alias("N", "")>>, 0)>>,
     <<ImportFrom(<<>>, <<alias(peer, "")>>, 1), ImportStmt(<<alias(<<"a", peer>>, "")>>)>>}

ExportModule(stem, decl, stmts) == File(Py(stem), stmts \o <<FunctionDef(decl, <<>>, <<>>)>>)

ExportProjects ==
    {Dir("a", IF mFirst THEN <<ExportModule("m", "X", sm), ExportModule("other", "Y", so)>>
              ELSE <<ExportModule("other", "Y", so), ExportModule("m", "X", sm)>>,
         <<>>) :
        sm \in ExportChoices("other"), so \in ExportChoices("m"), mFirst \in BOOLEAN}

\* Wildcard imports: a/lib.py declares public and private names, with or
\* without an export list; a/user.py holds `from a.lib import *` and
\* declares main.
LibDeclChoices ==
    {<<ClassDef("Pub", <<>>, <<>>), FunctionDef("_Priv", <<>>, <<>>)>>,
     <<FunctionDef("_helper", <<>>, <<>>), FunctionDef("f", <<>>, <<>>),
       ClassDef("Pub", <<>>, <<>>)>>}
LibAllChoices == {<<>>, <<Assign(AllName, ListLit(<<"Pub">>))>>}
UserSrc ==
    <<ImportFrom(<<"a", "lib">>, <<alias("*", "")>>, 0), FunctionDef("main", <<>>, <<>>)>>

WildcardProjects ==
    {Dir("a", IF libFirst
              THEN <<File(Py("lib"), exports \o decl), File(Py("user"), UserSrc)>>
              ELSE <<File(Py("user"), UserSrc), File(Py("lib"), exports \o decl)>>,
         <<>>) :
        decl \in LibDeclChoices, exports \in LibAllChoices, libFirst \in BOOLEAN}

\* Scope lookup: the regular package a declares class Base in its marker
\* file; a/p/m.py, in a namespace package or a regular package p, calls Base
\* from function f without importing it.
LookupProjects ==
    {Dir("a", <<File(InitPy, <<ClassDef("Base", <<>>, <<>>)>>)>>,
         <<Dir("p", Opt(regular, <<File(InitPy, <<>>)>>)
                    \o <<File(Py("m"), <<FunctionDef("f", <<>>, <<CallStmt("Base")>>)>>)>>,
               <<>>)>>) :
        regular \in BOOLEAN}

\* Instance attributes: a/b.py declares class Foo; a/c.py imports it and
\* declares class Bar whose __init__(self, p) assigns self.x once or twice,
\* the right-hand sides being Foo(), 1, p, unknown() and p + 1.
RhsChoices ==
    {Call(Name("Foo")), Constant("int"), Name("p"), Call(Name("unknown")),
     BinOp(Name("p"), "Add", Constant("int"))}
AssignChoices ==
    {<<Assign(SelfAttr("x"), v)>> : v \in RhsChoices}
    \cup {<<Assign(SelfAttr("x"), v), Assign(SelfAttr("x"), w)>> :
             v \in RhsChoices, w \in RhsChoices}

InstAttrProjects ==
    {Dir("a", <<File(Py("b"), <<ClassDef("Foo", <<>>, <<>>)>>),
                File(Py("c"),
                     <<ImportFrom(<<"a", "b">>, <<alias("Foo", "")>>, 0),
                       ClassDef("Bar", <<>>,
                                <<FunctionDef("__init__", <<"self", "p">>, stmts)>>)>>)>>,
         <<>>) :
        stmts \in AssignChoices}

\* Relative imports: a/p/n.py declares f; a file of a/p, the marker file or
\* the module a/p/m.py, holds `from . import n` or `from .n import f` and
\* declares k; a/n.py declaring g may exist beside the directory p.
RelativeImportChoices ==
    {ImportFrom(<<>>, <<alias("n", "")>>, 1),
     ImportFrom(<<"n">>, <<alias("f", "")>>, 1)}

RelativeProjects ==
    {Dir("a", Opt(outerN, <<File(Py("n"), <<FunctionDef("g", <<>>, <<>>)>>)>>),
         <<Dir("p", <<File(IF marker THEN InitPy ELSE Py("m"),
                           <<stmt, FunctionDef("k", <<>>, <<>>)>>),
                      File(Py("n"), <<FunctionDef("f", <<>>, <<>>)>>)>>,
               <<>>)>>) :
        stmt \in RelativeImportChoices, marker \in BOOLEAN, outerN \in BOOLEAN}

\* Forwarded imports: a/b.py declares Foo and Bar; a/mid.py imports Foo from
\* it, and in one variant Bar as A; a/c.py imports one name from a.b, a.mid
\* or the unknown a.ext, with or without alias, and is read before or after
\* a/mid.py.
MidImportChoices ==
    {<<alias("Foo", "")>>, <<alias("Foo", ""), alias("Bar", "A")>>}
ForwardImportChoices ==
    {ImportFrom(<<"a", mod>>, <<alias("Foo", asname)>>, 0) :
        mod \in {"b", "mid", "ext"}, asname \in {"", "A"}}
    \cup {ImportFrom(<<"a", "mid">>, <<alias("zzz", "")>>, 0)}

ForwardProjects ==
    {Dir("a", <<File(Py("b"), <<ClassDef("Foo", <<>>, <<>>), ClassDef("Bar", <<>>, <<>>)>>)>>
              \o (LET mid == File(Py("mid"), <<ImportFrom(<<"a", "b">>, names, 0),
                                               FunctionDef("k", <<>>, <<>>)>>)
                      c == File(Py("c"), <<stmt, FunctionDef("main", <<>>, <<>>)>>)
                  IN  IF midFirst THEN <<mid, c>> ELSE <<c, mid>>),
         <<>>) :
        names \in MidImportChoices, stmt \in ForwardImportChoices, midFirst \in BOOLEAN}

\* Repeated declarations: a/m.py declares a class twice, a function twice,
\* a method twice, or a class and a function of one name; the last body
\* repeats nothing.
DuplicateChoices ==
    LET run(params) == FunctionDef("run", params, <<>>)
    IN  {<<ClassDef("Foo", <<>>, <<run(<<"self">>)>>),
           ClassDef("Foo", <<>>, <<run(<<"self">>), FunctionDef("stop", <<"self">>, <<>>)>>)>>,
         <<FunctionDef("f", <<>>, <<>>), FunctionDef("f", <<"x">>, <<>>)>>,
         <<ClassDef("Foo", <<>>, <<run(<<"self">>), run(<<"self", "x">>)>>)>>,
         <<ClassDef("Foo", <<>>, <<>>), FunctionDef("Foo", <<>>, <<>>)>>,
         <<ClassDef("Foo", <<>>, <<run(<<"self">>)>>), FunctionDef("f", <<>>, <<>>)>>}

DuplicateProjects == {Dir("a", <<File(Py("m"), body)>>, <<>>) : body \in DuplicateChoices}

Projects ==
    Trees(1) \cup BrokenProjects \cup CallProjects \cup NestedCallProjects
    \cup ExportProjects \cup WildcardProjects \cup LookupProjects
    \cup InstAttrProjects \cup RelativeProjects
    \cup ForwardProjects \cup DuplicateProjects

(***************************************************************************)
(* The run: main.py, parser.run, ProjectNameSpace.__init__.                *)
(***************************************************************************)
root_dir == <<project.name>>
NewParser == [unresolved_nodes |-> 0, prev_unresolved_nodes |-> 0]
NoDocuments == [tree |-> "absent", relations |-> "absent"]

\* the methods ProjectNameSpace defines
ProjectNameSpaceMethods ==
    {"__init__", "get_comp_tree_dict", "_build_namespace", "_make_package",
     "_make_component", "_parse_file_content", "dependencies", "associations",
     "get_parent", "get_token_of_local_name", "_find_in_token_hierarchy",
     "condense_relations", "_bubble_relation"}

\* run_iteration without the reset of unresolved_nodes
run_iteration_keep(P, n, p, root) ==
    Bind(walk_dir_tree(P, n, p.unresolved_nodes, root, FALSE), LAMBDA a :
        IF ~Ok(a.n)
        THEN [n |-> a.n, p |-> [p EXCEPT !.unresolved_nodes = a.u], exit |-> "raise"]
        ELSE IF a.u = p.prev_unresolved_nodes
        THEN [n |-> a.n, p |-> [p EXCEPT !.unresolved_nodes = a.u], exit |-> "break"]
        ELSE [n |-> a.n,
              p |-> [unresolved_nodes |-> a.u, prev_unresolved_nodes |-> a.u],
              exit |-> "loop"])

\* one iteration of the loop of IndeterministicParser.run (lines 111-118) of
\* the parser object p of class P: [n, p, exit], exit being "break",
\* "raise" or "loop"
run_iteration(P, n, p, root) ==
    Bind(walk_dir_tree(P, n, p.unresolved_nodes, root, FALSE), LAMBDA a :
        IF ~Ok(a.n)
        THEN [n |-> a.n, p |-> [p EXCEPT !.unresolved_nodes = a.u], exit |-> "raise"]
        ELSE IF a.u = p.prev_unresolved_nodes
        THEN [n |-> a.n, p |-> [p EXCEPT !.unresolved_nodes = a.u], exit |-> "break"]
        ELSE [n |-> a.n,
              p |-> [unresolved_nodes |-> 0, prev_unresolved_nodes |-> a.u],
              exit |-> "loop"])

\* parser.run (lines 9-34) as a function of the tree, the sets being
\* iterated in one fixed order
build_all(root) ==
    FoldSeq(LAMBDA n, d : IF Ok(n) THEN build_dir(n, d, <<root.name>>) ELSE n,
            NewNameSpace, walk(root, <<>>, FALSE))

RECURSIVE run_to_break(_, _, _, _, _)
run_to_break(P, n, p, root, fuel) ==
    IF ~Ok(n) THEN n
    ELSE Bind(run_iteration(P, n, p, root), LAMBDA r :
            IF r.exit = "loop" /\ fuel > 1
            THEN run_to_break(P, r.n, r.p, root, fuel - 1)
            ELSE r.n)

run_once(P, n, root) == IF Ok(n) THEN walk_dir_tree(P, n, 0, root, TRUE).n ELSE n

RECURSIVE condense_in_order(_, _)
condense_in_order(n, rels) ==
    IF rels = {} \/ ~Ok(n) THEN n
    ELSE LET rel == CHOOSE r \in rels : TRUE
         IN  condense_in_order(_bubble_relation(n, rel.src_id, rel.tgt_id),
                               rels \ {rel})

run(root) ==
    LET built == build_all(root)
        exported == run_to_break("All", built, NewParser, root, MaxTraversals)
        imported == run_to_break("Import", exported, NewParser, root, MaxTraversals)
        called == run_once("Call", run_once("Inherit",
                                            run_once("InstAttr", imported, root),
                                            root), root)
    IN  condense_in_order(called, RelSetUnion(called.dependencies, called.associations))

Init ==
    /\ project \in Projects
    /\ pc = "build"
    /\ queue = walk(project, <<>>, FALSE)
    /\ ns = NewNameSpace
    /\ parser = [All |-> NewParser, Import |-> NewParser]
    /\ todo = {}
    /\ fine = {}
    /\ out = NoDocuments
    /\ traversals = [All |-> 0, Import |-> 0]

\* one directory of the os.walk loop of _build_namespace
BuildDir ==
    /\ pc = "build"
    /\ queue # <<>>
    /\ ns' = build_dir(ns, Head(queue), root_dir)
    /\ queue' = Tail(queue)
    /\ pc' = IF ~Ok(ns') THEN "aborted"
             ELSE IF Tail(queue) = <<>> THEN "all" ELSE "build"
    /\ UNCHANGED <<project, parser, todo, fine, out, traversals>>

\* one iteration of the loop of IndeterministicParser.run, of the parser
\* class P at position at, followed by position next
RunIteration(P, at, next) ==
    /\ pc = at
    /\ traversals[P] < MaxTraversals
    /\ \E r \in {run_iteration(P, ns, parser[P], project)} :
          /\ ns' = r.n
          /\ parser' = [parser EXCEPT ![P] = r.p]
          /\ pc' = IF r.exit = "raise" THEN "aborted"
                   ELSE IF r.exit = "break" THEN next ELSE at
    /\ traversals' = [traversals EXCEPT ![P] = @ + 1]
    /\ UNCHANGED <<project, queue, todo, fine, out>>

AllParserRun == RunIteration("All", "all", "import")
ImportParserRun == RunIteration("Import", "import", "inst")

\* DeterministicParser.run of the parser class P
RunOnce(P, at, next) ==
    /\ pc = at
    /\ \E a \in {walk_dir_tree(P, ns, 0, project, TRUE)} :
          /\ ns' = a.n
          /\ pc' = IF Ok(a.n) THEN next ELSE "aborted"
    /\ UNCHANGED <<project, queue, parser, todo, fine, out, traversals>>

InstanceAttributeParserRun == RunOnce("InstAttr", "inst", "inherit")
InheritanceParserRun == RunOnce("Inherit", "inherit", "call")
CallParserRun == RunOnce("Call", "call", "condense")

\* condense_relations: the set it iterates over is built once
CondenseBegin ==
    /\ pc = "condense"
    /\ todo' = RelSetUnion(ns.dependencies, ns.associations)
    /\ fine' = todo'
    /\ pc' = "condensing"
    /\ UNCHANGED <<project, queue, ns, parser, out, traversals>>

\* CondenseStep that leaves the loop at the first relation that records nothing
CondenseStepStop ==
    /\ pc = "condensing"
    /\ \E rel \in todo :
          /\ ns' = _bubble_relation(ns, rel.src_id, rel.tgt_id)
          /\ todo' = IF ns' = ns THEN {} ELSE todo \ {rel}
    /\ pc' = IF Ok(ns') THEN "condensing" ELSE "aborted"
    /\ UNCHANGED <<project, queue, parser, fine, out, traversals>>

\* one iteration, in the order the set happens to yield its elements
CondenseStep ==
    /\ pc = "condensing"
    /\ \E rel \in todo :
          /\ ns' = _bubble_relation(ns, rel.src_id, rel.tgt_id)
          /\ todo' = todo \ {rel}
    /\ pc' = IF Ok(ns') THEN "condensing" ELSE "aborted"
    /\ UNCHANGED <<project, queue, parser, fine, out, traversals>>

\* parser.run returns ns
CondenseEnd ==
    /\ pc = "condensing"
    /\ todo = {}
    /\ pc' = "returned"
    /\ UNCHANGED <<project, queue, ns, parser, todo, fine, out, traversals>>

\* main.py lines 23-24: the file is created by open, then dumped into
WriteTree ==
    /\ pc = "returned"
    /\ IF ns.root_comp = -1
       THEN out' = [out EXCEPT !.tree = "created"] /\ pc' = "aborted"
       ELSE out' = [out EXCEPT !.tree = "written"] /\ pc' = "tree_written"
    /\ UNCHANGED <<project, queue, ns, parser, todo, fine, traversals>>

\* main.py lines 25-26
WriteRelations ==
    /\ pc = "tree_written"
    /\ IF "get_rel_dict" \in ProjectNameSpaceMethods
       THEN out' = [out EXCEPT !.relations = "written"] /\ pc' = "done"
       ELSE out' = [out EXCEPT !.relations = "created"] /\ pc' = "aborted"
    /\ UNCHANGED <<project, queue, ns, parser, todo, fine, traversals>>

Next ==
    \/ BuildDir
    \/ AllParserRun
    \/ ImportParserRun
    \/ InstanceAttributeParserRun
    \/ InheritanceParserRun
    \/ CallParserRun
    \/ CondenseBegin
    \/ CondenseStep
    \/ CondenseEnd
    \/ WriteTree
    \/ WriteRelations

Spec == Init /\ [][Next]_vars

\* A step of AllParserRun or ImportParserRun, told by what it does to the
\* traversal counter (no other action changes it): the interpreter executes
\* the next iteration of a `while True` loop it is in.
Traversal ==
    \E P \in {"All", "Import"} :
        /\ pc = (IF P = "All" THEN "all" ELSE "import")
        /\ traversals[P] < MaxTraversals
        /\ traversals' = [traversals EXCEPT ![P] = @ + 1]

\* the loops of the fixed-point parsers are never left waiting
LiveSpec == Spec /\ WF_traversals(Traversal)

(***************************************************************************)
(* Properties.                                                             *)
(***************************************************************************)
BuildDone == ns.root_comp # -1
Entity(g) == ns.rel_tokens[g]
QualName(g) == Entity(g).qual_name
Retained == {ns.tokens[q] : q \in DOMAIN ns.tokens}
Children(g) == Entity(g).packages \cup Entity(g).components
RECURSIVE Descendants(_)
Descendants(g) == Children(g) \cup UNION {Descendants(c) : c \in Children(g)}
IsDirectory(t) == t.kind = "Package" \/ (t.kind = "Component" /\ t.regular_pkg)
NoDeclarations(t) == t.kind = "Component" /\ t.classes = {} /\ t.functions = {}
NoChildren(t) == t.packages = {} /\ t.components = {}
IsPrefix(p, q) == Len(p) <= Len(q) /\ SubSeq(q, 1, Len(p)) = p
Returned == pc = "returned"

C2_ContainmentClosure ==
    BuildDone =>
        \A q \in DOMAIN ns.tokens : Len(q) > 1 => Has(ns.tokens, Front(q))

\* C3: no relation attached to a container by condense_relations has the
\* same source and target.
C3_NoSelfRelation ==
    \A g \in DOMAIN ns.rel_tokens : \A r \in Entity(g).relations : r.src_id # r.tgt_id

\* C4: every relation attached to a container lifts some fine-grained
\* relation (source and target are equal to or ancestors of that relation's
\* source and target) and both its endpoints are direct children of the
\* container.
C4_BubblingSound ==
    \A g \in DOMAIN ns.rel_tokens : \A r \in Entity(g).relations :
        /\ \E f \in fine : /\ IsPrefix(QualName(r.src_id), QualName(f.src_id))
                           /\ IsPrefix(QualName(r.tgt_id), QualName(f.tgt_id))
        /\ Len(QualName(r.src_id)) > 1 /\ Front(QualName(r.src_id)) = QualName(g)
        /\ Len(QualName(r.tgt_id)) > 1 /\ Front(QualName(r.tgt_id)) = QualName(g)

\* a finished condensing that lifted a fine-grained relation by two levels
C4_Witness ==
    /\ Returned
    /\ \E g \in DOMAIN ns.rel_tokens : \E r \in Entity(g).relations : \E f \in fine :
          /\ IsPrefix(QualName(r.src_id), QualName(f.src_id))
          /\ IsPrefix(QualName(r.tgt_id), QualName(f.tgt_id))
          /\ Len(QualName(r.src_id)) + 2 = Len(QualName(f.src_id))

\* C5: a.c.make calls a.b.Foo imported from a.b
InstantiationScenario ==
    project \in {Dir("a", <<File(Py("b"), SrcB(fooInit, FALSE, FALSE)),
                            File(Py("c"), SrcC(FALSE, FALSE))>>, <<>>) :
                    fooInit \in BOOLEAN}

\* C5: in the instantiation scenario the call resolver records a USES
\* dependency from a.c.make to a.b.Foo (INSTANTIATES) or to its declared
\* __init__, and condensing records a plain USES edge from a.c to a.b on a.
C5_Instantiation ==
    (InstantiationScenario /\ Returned) =>
        LET make == ns.tokens[<<"a", "c", "make">>]
            foo == ns.tokens[<<"a", "b", "Foo">>]
            init == <<"a", "b", "Foo", "__init__">>
        IN  /\ IF Has(ns.tokens, init)
               THEN \E r \in ns.dependencies :
                       /\ r.src_id = make /\ r.tgt_id = ns.tokens[init]
                       /\ r.type = "uses"
               ELSE Relation(make, foo, "uses", "instantiates") \in ns.dependencies
            /\ Relation(ns.tokens[<<"a", "c">>], ns.tokens[<<"a", "b">>], "uses", "none")
                  \in Entity(ns.tokens[<<"a">>]).relations

\* the export lists of both modules are concatenations of each other's
CyclicExports ==
    \A i \in 1..Len(project.files) :
        \E j \in 1..Len(project.files[i].body) :
            /\ project.files[i].body[j].kind = "Assign"
            /\ project.files[i].body[j].value.e = "BinOp"
            /\ project.files[i].body[j].value.left.e = "Name"

\* C6: a running fixed-point parser eventually leaves its loop, and when it
\* hands over to the next pass the unresolved count of its last traversal
\* equals that of the one before.
C6_FixedPointTerminates ==
    /\ (pc = "all") ~> (pc # "all")
    /\ (pc = "import") ~> (pc # "import")
    /\ [](pc \in {"import", "inst"} =>
             parser.All.unresolved_nodes = parser.All.prev_unresolved_nodes)
    /\ [](pc = "inst" =>
             parser.Import.unresolved_nodes = parser.Import.prev_unresolved_nodes)

\* both resolvers have stopped on cyclic export references, the unresolved
\* count having settled above zero
C6_Witness ==
    /\ pc = "inst"
    /\ project \in ExportProjects
    /\ CyclicExports
    /\ traversals.All >= 2
    /\ parser.All.unresolved_nodes > 0

\* C7: other sets __all__ = ['Y'], m sets __all__ = ['X'] + other's list
ExportConcatScenario ==
    LET m == ExportModule("m", "X",
                 <<FromAll("other", "peer_all"),
                   Assign(AllName, Concat(ListLit(<<"X">>), Name("peer_all")))>>)
        other == ExportModule("other", "Y", <<Assign(AllName, ListLit(<<"Y">>))>>)
    IN  project \in {Dir("a", <<m, other>>, <<>>), Dir("a", <<other, m>>, <<>>)}

\* C7: in the export concatenation scenario the export resolver is done
\* after exactly two traversals and m's export list is ['X', 'Y'].
C7_ExportConcat ==
    (ExportConcatScenario /\ pc \notin {"build", "all"}) =>
        LET m == Entity(ns.tokens[<<"a", "m">>])
        IN  /\ traversals.All = 2
            /\ m.all # 0
            /\ ns.lists[m.all] = <<"X", "Y">>

\* C8: a run that has ended has written both documents or neither.
C8_AllOrNothing ==
    pc \in {"done", "aborted"} =>
        ((out.tree = "written") <=> (out.relations = "written"))

\* C9: whatever order condense_relations iterates in, parser.run returns
\* the namespace (ids, tree, dependencies, associations, condensed
\* relations) that the run in the fixed order returns.
C9_Deterministic == Returned => ns = run(project)

\* a returned run that condensed several relations
C9_Witness ==
    /\ Returned
    /\ Cardinality(fine) >= 3
    /\ \E g \in DOMAIN ns.rel_tokens : Cardinality(Entity(g).relations) >= 2

\* C10: once the build has finished, no step changes the qualified-name
\* lookup table, the keys of the id lookup table, the entity behind an id,
\* or the id counter.
C10_EntitiesFrozen ==
    [][BuildDone =>
          /\ ns'.tokens = ns.tokens
          /\ DOMAIN ns'.rel_tokens = DOMAIN ns.rel_tokens
          /\ \A g \in DOMAIN ns.rel_tokens :
                /\ ns'.rel_tokens[g].qual_name = ns.rel_tokens[g].qual_name
                /\ ns'.rel_tokens[g].kind = ns.rel_tokens[g].kind
          /\ ns'.gid = ns.gid]_vars

\* all passes have run and left imports, attributes and relations behind
C10_Witness ==
    /\ Returned
    /\ ns.dependencies # {} /\ ns.associations # {}
    /\ \E g \in DOMAIN ns.rel_tokens : Entity(g).imported_names # <<>>
    /\ \E g \in DOMAIN ns.rel_tokens : Entity(g).inst_attrs # {}
    /\ \E g \in DOMAIN ns.rel_tokens : Entity(g).relations # {}

\* the file a/<stem>.py of a flat project
FileOf(stem) ==
    project.files[CHOOSE i \in 1..Len(project.files) : project.files[i].name = Py(stem)]
ImportDone == traversals.Import >= 1 /\ pc \notin {"import", "aborted"}

\* the public classes and functions a source text declares, by short name
PublicDeclared(body, module) ==
    LET names == {body[i].name : i \in {j \in 1..Len(body) :
                      /\ body[j].kind \in {"ClassDef", "FunctionDef"}
                      /\ ~startswith_underscore(body[j].name)}}
    IN  [k \in {<<name>> : name \in names} |-> module \o k]

WildcardFromUnresolved ==
    /\ project \in WildcardProjects
    /\ ImportDone
    /\ Entity(ns.tokens[<<"a", "lib">>]).all = 0

\* C11: after the import resolver, the imported-name table of a module whose
\* only import is a wildcard import from a component without export list
\* holds exactly the classes and functions that component declares under a
\* name without leading underscore, each mapped to its qualified name.
C11_WildcardPublicOnly ==
    WildcardFromUnresolved =>
        Entity(ns.tokens[<<"a", "user">>]).imported_names
            = PublicDeclared(FileOf("lib").body, <<"a", "lib">>)

\* the wildcard import from a component declaring Pub and _Priv has added Pub
C11_Witness ==
    /\ WildcardFromUnresolved
    /\ \E i \in 1..Len(FileOf("lib").body) : FileOf("lib").body[i].name = "_Priv"
    /\ DOMAIN Entity(ns.tokens[<<"a", "user">>]).imported_names = {<<"Pub">>}

InCondense == pc \in {"condense", "condensing"}

\* C12: no step of condense_relations removes a Dependency or an Association
\* or changes its source, target, weight, kind or stereotype.
C12_OriginalEdgesKept ==
    [][InCondense =>
          /\ \A r \in ns.dependencies : r \in ns'.dependencies
          /\ \A r \in ns.associations : r \in ns'.associations
          /\ Cardinality(ns'.associations) = Cardinality(ns.associations)]_vars

\* condensing has attached to a container an edge equal in source, target
\* and weight to a call edge, which is still there with its stereotype
C12_Witness ==
    /\ Returned
    /\ \E r \in ns.dependencies :
          /\ r.stereotype = "calls"
          /\ \E g \in DOMAIN ns.rel_tokens : \E c \in Entity(g).relations :
                RelEq(c, r) /\ c.stereotype = "none"

\* C13: a name declared in the regular package a is found from a function
\* of a module below a, whether the directory between them is a regular
\* package or a namespace Package: the call of Base in a.p.m.f yields a
\* dependency from a.p.m.f to a.Base.
C13_LookupPastPackage ==
    (project \in LookupProjects /\ Returned) =>
        \E r \in ns.dependencies :
            /\ r.src_id = ns.tokens[<<"a", "p", "m", "f">>]
            /\ r.tgt_id = ns.tokens[<<"a", "Base">>]

InstAttrDone ==
    pc \in {"inherit", "call", "condense", "condensing", "returned", "tree_written",
            "done"}
\* the statements of Bar.__init__ in a project of InstAttrProjects
BarInit == FileOf("c").body[2].body[1].body

\* what the source text says of a right-hand side: the class it
\* instantiates, the type of the literal, "" for an expression that has no
\* name, "name" for a name or call that resolves to nothing
RhsLabel(v) ==
    IF v.e = "Call" /\ v.func.id = "Foo" THEN "Foo"
    ELSE IF v.e = "Constant" THEN v.typ
    ELSE IF v.e = "BinOp" THEN ""
    ELSE "name"

\* the attributes of Bar when every right-hand side that resolves to nothing
\* is recorded with the empty type, first label kept
RecordedUnknown(stmts) ==
    {Var("x", IF RhsLabel(stmts[1].value) = "name" THEN ""
              ELSE RhsLabel(stmts[1].value))}

\* the attributes of Bar when a name or call that resolves to nothing is
\* passed over, first label kept
RecordedNamed(stmts) ==
    LET kept == {i \in 1..Len(stmts) : RhsLabel(stmts[i].value) # "name"}
    IN  IF kept = {} THEN {}
        ELSE {Var("x", RhsLabel(stmts[CHOOSE i \in kept : \A j \in kept : i <= j].value))}

\* C14, as the specification states it: an assignment to self.x whose
\* right-hand side neither resolves nor is a primitive literal (parameter
\* name, call of an unknown name) records x with the empty type if x is new,
\* and a recorded attribute keeps its label.
C14_UnknownRecorded ==
    (project \in InstAttrProjects /\ InstAttrDone) =>
        Entity(ns.tokens[<<"a", "c", "Bar">>]).inst_attrs = RecordedUnknown(BarInit)

\* C14, amended: an assignment to self.x records x with the empty type if x
\* is new and the right-hand side is an expression the visitor has no name
\* for; a name or a call of a name that resolves to nothing and is no
\* primitive type records nothing; a recorded attribute keeps its label.
C14_FirstLabelKept ==
    (project \in InstAttrProjects /\ InstAttrDone) =>
        Entity(ns.tokens[<<"a", "c", "Bar">>]).inst_attrs = RecordedNamed(BarInit)

\* self.x = p + 1 followed by self.x = Foo(): x is recorded with the empty
\* type and stays so
C14_Witness ==
    /\ project \in InstAttrProjects
    /\ InstAttrDone
    /\ Len(BarInit) = 2
    /\ RhsLabel(BarInit[1].value) = ""
    /\ RhsLabel(BarInit[2].value) = "Foo"
    /\ Entity(ns.tokens[<<"a", "c", "Bar">>]).inst_attrs = {Var("x", "")}

\* the file of a/p that holds the relative import, and its entity
RelativeImporter == project.dirs[1].files[1]
RelativeImporterName ==
    IF RelativeImporter.name = InitPy THEN <<"a", "p">> ELSE <<"a", "p", "m">>
\* the table the import yields when one dot stands for the directory a/p
RelativeExpected ==
    LET stmt == RelativeImporter.body[1]
        name == stmt.names[1].name
    IN  (<<name>> :> (<<"a", "p">> \o stmt.module \o <<name>>))

\* C15: a from-import of level 1 in a file of the directory a/p, marker
\* file or module, with or without a sub-module path after the dot, is
\* resolved against a.p: once the import resolver has ended, the importing
\* component maps n to a.p.n, respectively f to a.p.n.f.
C15_RelativeToDirectory ==
    (project \in RelativeProjects /\ traversals.Import >= 1 /\ pc # "import") =>
        Entity(ns.tokens[RelativeImporterName]).imported_names = RelativeExpected

\* the from-import of a/c.py in a project of ForwardProjects, and the table
\* and the counter of the last traversal it yields by the stated priority
ForwardImport == FileOf("c").body[1]
ForwardLocalName ==
    <<IF ForwardImport.names[1].asname # "" THEN ForwardImport.names[1].asname
      ELSE ForwardImport.names[1].name>>
ForwardExpected ==
    LET P == ForwardImport.module
        N == ForwardImport.names[1].name
    IN  IF P = <<"a", "b">> THEN [names |-> ForwardLocalName :> (P \o <<N>>), unresolved |-> 0]
        ELSE IF P = <<"a", "mid">> /\ N = "Foo"
        THEN [names |-> ForwardLocalName :> <<"a", "b", "Foo">>, unresolved |-> 0]
        ELSE IF P = <<"a", "mid">> THEN [names |-> <<>>, unresolved |-> 1]
        ELSE [names |-> <<>>, unresolved |-> 0]

\* C16: for `from P import N [as A]` in a.c, once the import resolver has
\* ended, a.c maps the local name to P.N if P.N is an entity, else to what
\* P's table holds for N if P is known and has N, else maps nothing, the
\* last traversal having counted one unresolved name if P is known and none
\* if P is unknown.
C16_FromImportPriority ==
    (project \in ForwardProjects /\ traversals.Import >= 1 /\ pc # "import") =>
        /\ Entity(ns.tokens[<<"a", "c">>]).imported_names = ForwardExpected.names
        /\ parser.Import.unresolved_nodes = ForwardExpected.unresolved

\* the export list of the entity g in the namespace n, <<>> for None
ExportList(n, g) == IF n.rel_tokens[g].all = 0 THEN <<>> ELSE n.lists[n.rel_tokens[g].all]
InAllParser == pc = "all"

\* C17: a traversal of the export resolver leaves every export list that
\* held names before it with the same names in the same order.
C17_ExportListStable ==
    [][InAllParser =>
          \A g \in DOMAIN ns.rel_tokens :
              ExportList(ns, g) # <<>> => ExportList(ns', g) = ExportList(ns, g)]_vars

\* the classes, functions and methods the entity g holds in its member sets
Members(g) == Entity(g).classes \cup Entity(g).functions \cup Entity(g).inst_methods

\* C18: after the namespace build, every class, function and method in a
\* member set is the entity the lookup table holds for its qualified name,
\* and no two entities have the same qualified name.
C18_TreeAgreesWithTable ==
    BuildDone =>
        /\ \A g \in DOMAIN ns.rel_tokens : \A h \in Members(g) :
              /\ Has(ns.tokens, QualName(h))
              /\ ns.tokens[QualName(h)] = h
        /\ \A g, h \in DOMAIN ns.rel_tokens : QualName(g) = QualName(h) => g = h

====
